---- MODULE Spec2Model ----
(***************************************************************************)
(* KafkaRelayPlugin (src/src/config.ts): the constructor's derivation of   *)
(* the broker client options, and the init() / relay() lifecycle of one    *)
(* instance under the single-threaded asynchronous scheduling of the       *)
(* JavaScript run time: the code between two awaits runs as one step, and  *)
(* an awaited network operation (connect, send) settles in a later step.   *)
(*                                                                         *)
(* Values.  A JavaScript value that may be undefined or null is a sequence *)
(* of length at most one: <<>> is undefined/null, <<v>> is the value v.    *)
(* Text is a sequence of UTF-16 code units, binary data a sequence of      *)
(* bytes, so that decoding and JSON encoding are computed, not assumed.    *)
(* Names of settings, log lines and error messages are TLA+ strings.       *)
(***************************************************************************)
EXTENDS Integers, Sequences, FiniteSets, TLC

\* ------------------------------------------------------------------ bounds
\* calls (init or relay) made on the instance in one behaviour
MaxCalls == 3
\* length of a payload (code units or bytes) in the payload specification
MaxLen == 2

\* ------------------------------------------------------------ JS optionals
None == <<>>
Some(v) == <<v>>
\* a ?? b
Coalesce(a, b) == IF a # None THEN a ELSE b
\* truthiness of an optional string: undefined and "" are falsy
Truthy(s) == s # None /\ s # Some("")

\* KafkaRelayPlugin.name
ClassName == "KafkaRelayPlugin"

\* --------------------------------------------------------------- constructor
\* ssl === false
JsFalse == <<"false">>
JsObject(r) == <<"object", r>>

\* a tier that is taken to be production when no source sets it
isDevDefaultsToProd(cfg, env) ==
    Coalesce(cfg.NODE_ENV, Coalesce(env.NODE_ENV, Some("prod"))) = Some("dev")

\* line 63: (configuration.NODE_ENV ?? process.env.NODE_ENV ?? 'dev') === 'dev'
isDev(cfg, env) ==
    Coalesce(cfg.NODE_ENV, Coalesce(env.NODE_ENV, Some("dev"))) = Some("dev")

\* a TLS policy that lists the CA setting whenever it is defined, empty or not
sslListsEmptyCa(cfg, env) ==
    IF isDev(cfg, env)
    THEN JsFalse
    ELSE JsObject([rejectUnauthorized |-> FALSE,
                   ca |-> IF cfg.KAFKA_TLS_CA # None
                          THEN <<cfg.KAFKA_TLS_CA[1]>>
                          ELSE <<>>])

\* lines 65-70
ssl(cfg, env) ==
    IF isDev(cfg, env)
    THEN JsFalse
    ELSE JsObject([rejectUnauthorized |-> FALSE,
                   ca |-> IF Truthy(cfg.KAFKA_TLS_CA)
                          THEN <<cfg.KAFKA_TLS_CA[1]>>
                          ELSE <<>>])

\* lines 73-78: the options the broker client is constructed with
NewKafka(cfg, env) ==
    [clientId |-> Coalesce(cfg.CLIENT_ID, Some("relay-plugin"))[1],
     brokers  |-> <<Coalesce(cfg.DESTINATION_TRANSPORT_URL, Some("localhost:9092"))[1]>>,
     ssl      |-> ssl(cfg, env),
     logLevel |-> "ERROR"]

\* What validateProcessorConfig(additionalEnvironmentVariables) can hand to the
\* constructor: the ProcessorConfig field nodeEnv, the ExtendedConfig fields
\* (lines 10-16), each optional one present or absent.
\* NODE_ENV is declared by ExtendedConfig but is not among
\* additionalEnvironmentVariables (lines 18-37): when a configuration carries
\* it at all, it is the tier nodeEnv names.
Configurations ==
    {cfg \in [DESTINATION_TRANSPORT_URL : {None, Some("broker:9093")},
              PRODUCER_STREAM           : {"topic-a"},
              KAFKA_TLS_CA              : {None, Some(""), Some("FAKE_CA")},
              CLIENT_ID                 : {None, Some("test-client")},
              NODE_ENV                  : {None, Some("dev"), Some("prod"), Some("test")},
              nodeEnv                   : {"dev", "prod", "test"}] :
        cfg.NODE_ENV \in {None, Some(cfg.nodeEnv)}}

\* process.env as the constructor reads it (line 63)
ProcessEnvs == [NODE_ENV : {None, Some("dev"), Some("test"), Some("prod")}]

\* The configurations of the lifecycle specification: the two of the test
\* suite's makeConfig (prod with CA, dev without), as the resolver returns them.
LifecycleConfigurations ==
    {[DESTINATION_TRANSPORT_URL |-> Some("localhost:9092"),
      PRODUCER_STREAM |-> "test-topic", KAFKA_TLS_CA |-> Some("FAKE_CA_CERT"),
      CLIENT_ID |-> Some("test-client"), NODE_ENV |-> None, nodeEnv |-> "prod"],
     [DESTINATION_TRANSPORT_URL |-> Some("broker:9093"),
      PRODUCER_STREAM |-> "topic-a", KAFKA_TLS_CA |-> None,
      CLIENT_ID |-> None, NODE_ENV |-> None, nodeEnv |-> "dev"]}

\* ------------------------------------------------------------------- state
VARIABLES
    processEnv,     \* process.env
    configuration,  \* this.configuration: None before construction
    kafka,          \* this.kafka: the constructed client's options, None before
    kafkaCount,     \* how many broker clients were constructed (new Kafka)
    constructError, \* what the constructor threw: None, or Some(the missing settings)
    producer,       \* this.producer: None, or Some(index into producers)
    producers,      \* the producers kafka.producer() has created: their connection state
    calls           \* the init()/relay() calls made so far, in order of invocation

vars == <<processEnv, configuration, kafka, kafkaCount, constructError,
          producer, producers, calls>>
ctorVars == <<processEnv, configuration, kafka, kafkaCount, constructError>>

Cfg == configuration[1]

\* --------------------------------------------------------------------- text
\* decimal digits of n as code units
RECURSIVE Digits(_)
Digits(n) == IF n < 10 THEN <<48 + n>> ELSE Digits(n \div 10) \o <<48 + (n % 10)>>

\* Buffer.prototype.toString(): UTF-8 decoding, ill-formed input replaced by
\* U+FFFD. One- and two-byte forms; the three- and four-byte lead bytes
\* (0xE0-0xF4) are outside the byte alphabet of the model.
RECURSIVE Utf8Decode(_)
Utf8Decode(b) ==
    IF b = <<>> THEN <<>>
    ELSE IF b[1] < 128 THEN <<b[1]>> \o Utf8Decode(Tail(b))
    ELSE IF b[1] >= 194 /\ b[1] <= 223 /\ Len(b) >= 2 /\ b[2] >= 128 /\ b[2] <= 191
         THEN <<(b[1] - 192) * 64 + (b[2] - 128)>> \o Utf8Decode(Tail(Tail(b)))
    ELSE <<65533>> \o Utf8Decode(Tail(b))

\* JSON.stringify of a typed array: {"0":b0,"1":b1,...}
RECURSIVE JsonEntries(_, _)
JsonEntries(b, i) ==
    IF i > Len(b) THEN <<>>
    ELSE (IF i > 1 THEN <<44>> ELSE <<>>)
         \o <<34>> \o Digits(i - 1) \o <<34, 58>> \o Digits(b[i])
         \o JsonEntries(b, i + 1)
JsonStringify(b) == <<123>> \o JsonEntries(b, 1) \o <<125>>

\* relay's argument: a string, a Buffer, or a plain Uint8Array
Text(s)  == [type |-> "string", content |-> s]
Buf(b)   == [type |-> "Buffer", content |-> b]
U8(b)    == [type |-> "Uint8Array", content |-> b]
NoData   == [type |-> "none", content |-> <<>>]

\* a normalisation that JSON-encodes whatever is not a Buffer, text included
\* (the code units of the model's texts need no escape but the double quote)
NormalizePayloadStringifiesText(data) ==
    IF data.type = "Buffer" THEN Utf8Decode(data.content)
    ELSE IF data.type = "string"
         THEN <<34>> \o data.content \o <<34>>
    ELSE JsonStringify(data.content)

\* line 98
NormalizePayload(data) ==
    IF data.type = "Buffer" THEN Utf8Decode(data.content)
    ELSE IF data.type = "string" THEN data.content
    ELSE JsonStringify(data.content)

\* ------------------------------------------------------------------ events
\* One entry of a call's trace: what the call did to a collaborator.
\* loggerService.log(msg, ctx) / loggerService.error(msg, ctx)
LogInfo(msg)  == <<"log", msg, ClassName>>
LogError(msg) == <<"error", msg, ClassName>>
\* loggerService.log(msg, ctx) threw
LogThrows(msg) == <<"log", msg, "throw">>
\* apm.startTransaction(name) / apm.startSpan(name), with what it returned
StartTransaction(result) == <<"startTransaction", ClassName, result>>
StartSpan(result)        == <<"startSpan", "relay", result>>
SpanEnd        == <<"span.end", "", "">>
TransactionEnd == <<"transaction.end", "", "">>
\* kafka.producer(), producer.connect(), producer.send({topic, messages})
CreateProducer == <<"kafka.producer", "", "">>
Connect        == <<"producer.connect", "", "">>
Send(topic)    == <<"producer.send", topic, "">>
\* the awaited connect() / send() settled: what the network did, not the code
ConnectResolved      == <<"connect resolved", "", "">>
ConnectRejected(msg) == <<"connect rejected", msg, "">>
SendResolved         == <<"send resolved", "", "">>
SendRejected(msg)    == <<"send rejected", msg, "">>

\* `${value}` of an optional string
Interpolate(opt) == IF opt = None THEN "undefined" ELSE opt[1]

\* how often event e occurs in trace t
RECURSIVE Count(_, _)
Count(t, e) == IF t = <<>> THEN 0 ELSE (IF t[1] = e THEN 1 ELSE 0) + Count(Tail(t), e)
\* how often an event of kind k occurs in trace t
RECURSIVE CountKind(_, _)
CountKind(t, k) ==
    IF t = <<>> THEN 0 ELSE (IF t[1][1] = k THEN 1 ELSE 0) + CountKind(Tail(t), k)
\* positions of the events of kind k in t
Positions(t, k) == {i \in DOMAIN t : t[i][1] = k}

\* -------------------------------------------------------------------- calls
\* A call: its operation and argument, where it stands (pc), what it did
\* (trace), the publish requests it submitted (sent), its local variables
\* apmTransaction and span, the exception in flight (thrown) and the producer
\* whose connect() it awaits (target, 0 when none).
NewCall(op, data) ==
    [op |-> op, data |-> data, pc |-> "running", trace |-> <<>>, sent |-> <<>>,
     apmTransaction |-> None, span |-> None, thrown |-> None, target |-> 0]

Do(call, e) == [call EXCEPT !.trace = Append(@, e)]
Throw(call, e, msg) == [Do(call, e) EXCEPT !.thrown = Some(msg)]

\* errors the collaborators raise, by message
ConnectErrors == {"ECONNREFUSED"}
SendErrors    == {"boom", "Send failed"}
TracerError   == "apm unavailable"
LoggerError   == "log sink closed"

\* What the collaborators do in the synchronous part of one relay() call:
\* startTransaction and startSpan return a handle ("ok"), return null, or
\* throw; log returns or throws; "-" marks a step that is never reached.
RelayOutcomes ==
    {o \in [tx : {"ok", "null", "throw"}, span : {"ok", "null", "throw", "-"},
            log : {"ok", "throw", "-"}] :
        /\ (o.tx = "throw") <=> (o.span = "-")
        /\ (o.span \in {"throw", "-"}) <=> (o.log = "-")}

\* ---------------------------------------------------------------- init()
\* an init() that creates and connects the producer before it logs the address
InitBeginConnectsFirst(url, p) ==
    [Do(Do(Do(NewCall("init", NoData),
              CreateProducer),
           Connect),
        LogInfo("Initializing Kafka producer for broker: " \o Interpolate(url)))
     EXCEPT !.pc = "awaitConnect", !.target = p]

\* lines 82-87, up to the await: log, create the producer, call connect()
InitBegin(url, p) ==
    [Do(Do(Do(NewCall("init", NoData),
              LogInfo("Initializing Kafka producer for broker: " \o Interpolate(url))),
           CreateProducer),
        Connect)
     EXCEPT !.pc = "awaitConnect", !.target = p]

\* line 88: connect() resolved, the call logs and returns
InitConnected(call) ==
    [Do(call, LogInfo("Kafka producer connected")) EXCEPT !.pc = "fulfilled"]

\* an init() that catches the connect failure and returns normally
InitConnectRejectedSwallowed(call, msg) ==
    [Do(call, LogError("Kafka connect error: " \o msg)) EXCEPT !.pc = "fulfilled"]

\* line 87: connect() rejected, the await throws out of init()
InitConnectRejected(call, msg) ==
    [call EXCEPT !.pc = "rejected", !.thrown = Some(msg)]

\* an init() that constructs the broker client itself, as well as the producer
InitStartRebuildsClient ==
    /\ kafka # None
    /\ Len(calls) < MaxCalls
    /\ LET p == Len(producers) + 1 IN
        /\ producers' = Append(producers, "connecting")
        /\ producer' = Some(p)
        /\ calls' = Append(calls, InitBegin(Cfg.DESTINATION_TRANSPORT_URL, p))
    /\ kafka' = Some(NewKafka(Cfg, processEnv))
    /\ kafkaCount' = kafkaCount + 1
    /\ UNCHANGED <<processEnv, configuration, constructError>>

InitStart ==
    /\ kafka # None
    /\ Len(calls) < MaxCalls
    /\ LET p == Len(producers) + 1 IN
        /\ producers' = Append(producers, "connecting")
        /\ producer' = Some(p)
        /\ calls' = Append(calls, InitBegin(Cfg.DESTINATION_TRANSPORT_URL, p))
    /\ UNCHANGED ctorVars

ConnectResolves(c) ==
    /\ calls[c].pc = "awaitConnect"
    /\ producers' = [producers EXCEPT ![calls[c].target] = "connected"]
    /\ calls' = [calls EXCEPT ![c] = InitConnected(Do(@, ConnectResolved))]
    /\ UNCHANGED <<ctorVars, producer>>

ConnectRejects(c, msg) ==
    /\ calls[c].pc = "awaitConnect"
    /\ producers' = [producers EXCEPT ![calls[c].target] = "failed"]
    /\ calls' = [calls EXCEPT ![c] = InitConnectRejected(Do(@, ConnectRejected(msg)), msg)]
    /\ UNCHANGED <<ctorVars, producer>>

\* ---------------------------------------------------------------- relay()
\* line 94: apmTransaction = this.apm.startTransaction(KafkaRelayPlugin.name)
TryStartTransaction(call, o) ==
    IF o.tx = "throw" THEN Throw(call, StartTransaction("throw"), TracerError)
    ELSE IF o.tx = "null" THEN Do(call, StartTransaction("null"))
    ELSE [Do(call, StartTransaction("handle")) EXCEPT !.apmTransaction = Some("handle")]

\* line 95: const span = this.apm.startSpan('relay')
TryStartSpan(call, o) ==
    IF o.span = "throw" THEN Throw(call, StartSpan("throw"), TracerError)
    ELSE IF o.span = "null" THEN Do(call, StartSpan("null"))
    ELSE [Do(call, StartSpan("handle")) EXCEPT !.span = Some("handle")]

\* line 96
TryLog(call, o, topic) ==
    IF o.log = "throw"
    THEN Throw(call, LogThrows("Sending data to Kafka topic: " \o topic), LoggerError)
    ELSE Do(call, LogInfo("Sending data to Kafka topic: " \o topic))

\* lines 100-103: the publish request handed to producer.send
SendRequest(topic, data) ==
    [topic |-> topic, messages |-> <<[value |-> NormalizePayload(data)]>>]

\* lines 98-103: await this.producer?.send(...): with no producer nothing is
\* sent and the call awaits undefined; otherwise the request goes to the
\* producer this.producer names, whatever its connection state (recorded).
TrySend(call, prod, prods, topic) ==
    IF prod = None
    THEN [call EXCEPT !.pc = "awaitSend"]
    ELSE [Do(call, Send(topic))
          EXCEPT !.pc = "awaitSend",
                 !.sent = Append(@, [producer |-> prod[1], state |-> prods[prod[1]],
                                     request |-> SendRequest(topic, call.data)])]

\* lines 93-103: the try block up to its await, stopping at the first throw
RelayTry(call, o, prod, prods, topic) ==
    LET a == TryStartTransaction(call, o) IN
    IF a.thrown # None THEN a ELSE
    LET b == TryStartSpan(a, o) IN
    IF b.thrown # None THEN b ELSE
    LET c == TryLog(b, o, topic) IN
    IF c.thrown # None THEN c ELSE TrySend(c, prod, prods, topic)

\* a catch block that logs a fixed text, without the error's message
RelayCatchDropsMessage(call) ==
    [Do(call, LogError("Kafka relay error")) EXCEPT !.thrown = None]

\* a catch block that logs and rethrows
RelayCatchRethrows(call) ==
    Do(call, LogError("Kafka relay error: " \o call.thrown[1]))

\* lines 106-107: the catch block logs the error's message and swallows it
RelayCatch(call) ==
    [Do(call, LogError("Kafka relay error: " \o call.thrown[1])) EXCEPT !.thrown = None]

\* a finally block that forgets the transaction
RelayFinallyKeepsTransaction(call) ==
    [call EXCEPT !.pc = IF call.thrown = None THEN "fulfilled" ELSE "rejected"]

\* lines 108-110: the finally block ends the transaction, if there is one, and
\* the call returns (or throws what is still in flight)
RelayFinally(call) ==
    [(IF call.apmTransaction # None THEN Do(call, TransactionEnd) ELSE call)
     EXCEPT !.pc = IF call.thrown = None THEN "fulfilled" ELSE "rejected"]

\* lines 106-110: leaving the try block, normally or by an exception
RelayLeaveTry(call) ==
    RelayFinally(IF call.thrown # None THEN RelayCatch(call) ELSE call)

\* lines 91-103: relay() from its invocation to its await or, on a throw, its return
RelayBegin(data, o, prod, prods, topic) ==
    LET t == RelayTry(NewCall("relay", data), o, prod, prods, topic) IN
    IF t.thrown # None THEN RelayLeaveTry(t) ELSE t

\* line 105 and on: the awaited send resolved
RelayAfterSend(call) ==
    RelayLeaveTry(IF call.span # None THEN Do(call, SpanEnd) ELSE call)

\* a relay() that submits its request again when the send is rejected
RelaySendFailedResubmits(call, msg) ==
    [Do(call, Send(call.sent[1].request.topic))
     EXCEPT !.sent = Append(@, @[1])]

\* line 100: the awaited send rejected with Error(msg)
RelaySendFailed(call, msg) ==
    RelayLeaveTry([call EXCEPT !.thrown = Some(msg)])

\* a relay() that waits for the relay() calls in flight before it starts
RelayStartSerialized(data, o) ==
    /\ kafka # None
    /\ Len(calls) < MaxCalls
    /\ \A c \in DOMAIN calls : calls[c].pc # "awaitSend"
    /\ calls' = Append(calls, RelayBegin(data, o, producer, producers, Cfg.PRODUCER_STREAM))
    /\ UNCHANGED <<ctorVars, producer, producers>>

RelayStart(data, o) ==
    /\ kafka # None
    /\ Len(calls) < MaxCalls
    /\ calls' = Append(calls, RelayBegin(data, o, producer, producers, Cfg.PRODUCER_STREAM))
    /\ UNCHANGED <<ctorVars, producer, producers>>

SendResolves(c) ==
    /\ calls[c].pc = "awaitSend"
    /\ calls' = [calls EXCEPT ![c] =
                    RelayAfterSend(IF @.sent # <<>> THEN Do(@, SendResolved) ELSE @)]
    /\ UNCHANGED <<ctorVars, producer, producers>>

\* only a request that was submitted can be rejected
SendRejects(c, msg) ==
    /\ calls[c].pc = "awaitSend"
    /\ calls[c].sent # <<>>
    /\ calls' = [calls EXCEPT ![c] = RelaySendFailed(Do(@, SendRejected(msg)), msg)]
    /\ UNCHANGED <<ctorVars, producer, producers>>

\* ------------------------------------------------------------ construction
\* lines 56-79: new KafkaRelayPlugin(loggerService, apm), the resolver returning cfg
Construct(cfg) ==
    /\ kafka = None
    /\ configuration' = Some(cfg)
    /\ kafka' = Some(NewKafka(cfg, processEnv))
    /\ kafkaCount' = kafkaCount + 1
    /\ UNCHANGED <<processEnv, constructError, producer, producers, calls>>

\* lines 18-37: the settings the constructor asks the resolver for
additionalEnvironmentVariables ==
    <<[name |-> "DESTINATION_TRANSPORT_URL", type |-> "string", optional |-> FALSE],
      [name |-> "PRODUCER_STREAM", type |-> "string", optional |-> FALSE],
      [name |-> "KAFKA_TLS_CA", type |-> "string", optional |-> FALSE],
      [name |-> "CLIENT_ID", type |-> "string", optional |-> TRUE]>>

\* validateProcessorConfig: the settings declared required that the environment
\* leaves unset or empty
MissingFields(env, declared) ==
    {declared[i].name : i \in {j \in DOMAIN declared :
                                  ~declared[j].optional /\ ~Truthy(env[declared[j].name])}}

\* validateProcessorConfig: the configuration read from the environment, each
\* declared setting under its name, the tier (development when unset) as nodeEnv
ResolvedConfiguration(env) ==
    [DESTINATION_TRANSPORT_URL |-> env.DESTINATION_TRANSPORT_URL,
     PRODUCER_STREAM           |-> env.PRODUCER_STREAM[1],
     KAFKA_TLS_CA              |-> env.KAFKA_TLS_CA,
     CLIENT_ID                 |-> env.CLIENT_ID,
     NODE_ENV                  |-> None,
     nodeEnv                   |-> Coalesce(env.NODE_ENV, Some("dev"))[1]]

\* line 60 and on: the resolver finds every required setting, construction goes on
ConstructFromEnv ==
    /\ constructError = None
    /\ MissingFields(processEnv, additionalEnvironmentVariables) = {}
    /\ Construct(ResolvedConfiguration(processEnv))

\* line 60: the resolver fails and the constructor throws its error
ConstructFails ==
    /\ kafka = None
    /\ constructError = None
    /\ MissingFields(processEnv, additionalEnvironmentVariables) # {}
    /\ constructError' = Some(MissingFields(processEnv, additionalEnvironmentVariables))
    /\ UNCHANGED <<processEnv, configuration, kafka, kafkaCount, producer, producers, calls>>

\* the instance as the constructor leaves it
Constructed(cfg, env) ==
    /\ processEnv = env
    /\ configuration = Some(cfg)
    /\ kafka = Some(NewKafka(cfg, env))
    /\ kafkaCount = 1
    /\ constructError = None
    /\ producer = None
    /\ producers = <<>>
    /\ calls = <<>>

\* ---------------------------------------------------------- specifications
BoundedSeq(S, n) == UNION {[1..k -> S] : k \in 0..n}
\* code units: h, i, the double quote
CharAlphabet == {104, 105, 34}
\* bytes: H, and the two bytes of U+00E9, each ill-formed on its own
ByteAlphabet == {72, 195, 169}
Payloads ==
    {Text(s) : s \in BoundedSeq(CharAlphabet, MaxLen)}
    \cup {Buf(b) : b \in BoundedSeq(ByteAlphabet, MaxLen)}
    \cup {U8(b) : b \in BoundedSeq(ByteAlphabet, MaxLen)}

\* the lifecycle specification's payloads and collaborator outcomes
LifecyclePayloads == {Text(<<104, 105>>), Buf(<<72, 105>>)}
LifecycleOutcomes ==
    {o \in RelayOutcomes : o.tx = "throw" \/ (o.log = "ok" /\ ((o.tx = "ok") <=> (o.span = "ok")))}
LifecycleSendErrors == {"boom"}

Calls == DOMAIN calls

\* Lifecycle: any interleaving of up to MaxCalls init() and relay() calls on
\* one constructed instance.
Init ==
    \E cfg \in LifecycleConfigurations :
        Constructed(cfg, [NODE_ENV |-> Some(cfg.nodeEnv)])

Next ==
    \/ InitStart
    \/ \E c \in Calls : ConnectResolves(c)
    \/ \E c \in Calls, msg \in ConnectErrors : ConnectRejects(c, msg)
    \/ \E data \in LifecyclePayloads, o \in LifecycleOutcomes : RelayStart(data, o)
    \/ \E c \in Calls : SendResolves(c)
    \/ \E c \in Calls, msg \in LifecycleSendErrors : SendRejects(c, msg)

Spec == Init /\ [][Next]_vars

\* The lifecycle when every awaited send settles: the broker client resolves or
\* rejects each publish, and the run time then resumes the suspended call (a
\* call that awaits undefined is resumed at once).
SendSettles(c) ==
    /\ c \in Calls
    /\ SendResolves(c) \/ \E msg \in LifecycleSendErrors : SendRejects(c, msg)

SpecFair == Spec /\ \A c \in 1..MaxCalls : WF_vars(SendSettles(c))

\* One relay() call, with every payload and every collaborator outcome, on an
\* instance in any state the init() calls before and around it leave.
NoRelayYet == \A c \in Calls : calls[c].op # "relay"

NextRelay ==
    \/ InitStart
    \/ \E c \in Calls : ConnectResolves(c)
    \/ \E c \in Calls, msg \in ConnectErrors : ConnectRejects(c, msg)
    \/ NoRelayYet /\ \E data \in Payloads, o \in RelayOutcomes : RelayStart(data, o)
    \/ \E c \in Calls : SendResolves(c)
    \/ \E c \in Calls, msg \in SendErrors : SendRejects(c, msg)

SpecRelay == Init /\ [][NextRelay]_vars

\* Construction: every configuration the resolver can return, in every
\* process environment.
InitCtor ==
    /\ processEnv \in ProcessEnvs
    /\ configuration = None
    /\ kafka = None
    /\ kafkaCount = 0
    /\ constructError = None
    /\ producer = None
    /\ producers = <<>>
    /\ calls = <<>>

NextCtor == \E cfg \in Configurations : Construct(cfg)

SpecCtor == InitCtor /\ [][NextCtor]_vars

\* Construction from the process environment: every subset of the settings set.
Environments ==
    [NODE_ENV                  : {None, Some("dev"), Some("prod")},
     DESTINATION_TRANSPORT_URL : {None, Some("broker:9093")},
     PRODUCER_STREAM           : {None, Some("topic-a")},
     KAFKA_TLS_CA              : {None, Some(""), Some("FAKE_CA")},
     CLIENT_ID                 : {None, Some("test-client")}]

InitResolve ==
    /\ processEnv \in Environments
    /\ configuration = None
    /\ kafka = None
    /\ kafkaCount = 0
    /\ constructError = None
    /\ producer = None
    /\ producers = <<>>
    /\ calls = <<>>

NextResolve == ConstructFromEnv \/ ConstructFails

SpecResolve == InitResolve /\ [][NextResolve]_vars

\* ------------------------------------------------------------------ claims
RelayCalls == {c \in Calls : calls[c].op = "relay"}
InitCalls  == {c \in Calls : calls[c].op = "init"}
Returned(c) == calls[c].pc \in {"fulfilled", "rejected"}
Last(t) == t[Len(t)]
\* a step of the call failed: a collaborator threw, or the send rejected
Failures(t) ==
    {i \in DOMAIN t : t[i][3] = "throw" \/ t[i][1] = "send rejected"}
\* the message of the failure recorded at position i of trace t
FailureMessage(t, i) ==
    IF t[i][1] = "send rejected" THEN t[i][2]
    ELSE IF t[i][1] = "log" THEN LoggerError ELSE TracerError

\* C1: relay() never throws to its caller: whatever the state of the instance
\* and whichever step fails, the call's promise is never rejected, a call that
\* has returned holds no exception, and the failure it met is in its error log.
C1_RelayNeverThrows ==
    \A c \in RelayCalls :
        /\ calls[c].pc \in {"awaitSend", "fulfilled"}
        /\ Returned(c) => calls[c].thrown = None
        /\ \A i \in Failures(calls[c].trace) :
               Returned(c) =>
                   Count(calls[c].trace,
                         LogError("Kafka relay error: "
                                  \o FailureMessage(calls[c].trace, i))) = 1

\* a relay() call returned normally although its publish was rejected by a
\* producer whose connect had failed
C1_Witness ==
    \E c \in RelayCalls :
        /\ calls[c].pc = "fulfilled"
        /\ CountKind(calls[c].trace, "send rejected") = 1
        /\ calls[c].sent[1].state = "failed"

\* C2: every relay() call that started the child span 'relay' has ended it
\* exactly once when it returns, on the error path as on the success path.
C2_SpanEndedOnEveryPath ==
    \A c \in RelayCalls :
        (Returned(c) /\ Count(calls[c].trace, StartSpan("handle")) = 1)
            => Count(calls[c].trace, SpanEnd) = 1

\* C3: every relay() call that started a transaction ends it exactly once: never
\* twice, not before the call leaves its try block, and when the call has
\* returned the end is the last thing the call did, after any span end and any
\* error log; a call that started none ends none.
C3_TransactionEndedOnce ==
    \A c \in RelayCalls :
        LET t == calls[c].trace
            started == Count(t, StartTransaction("handle")) = 1
        IN  /\ Count(t, TransactionEnd) <= 1
            /\ ~Returned(c) => Count(t, TransactionEnd) = 0
            /\ (Returned(c) /\ started) =>
                   /\ Count(t, TransactionEnd) = 1
                   /\ Last(t) = TransactionEnd
                   /\ \A i \in Positions(t, "span.end") \cup Positions(t, "error") :
                          i < Len(t)
            /\ ~started => Count(t, TransactionEnd) = 0

\* a call that started a transaction and a span returned after its publish was
\* rejected: the error was logged and the transaction ended
C3_Witness ==
    \E c \in RelayCalls :
        /\ Returned(c)
        /\ Count(calls[c].trace, StartTransaction("handle")) = 1
        /\ CountKind(calls[c].trace, "send rejected") = 1
        /\ CountKind(calls[c].trace, "error") = 1

\* the instance is Ready: this.producer names a connected producer
Ready == producer # None /\ producers[producer[1]] = "connected"
\* the step appends a relay() call made with data of the given types
RelayInvoked(types) ==
    /\ Len(calls') = Len(calls) + 1
    /\ Last(calls').op = "relay"
    /\ Last(calls').data.type \in types

\* C4: relay(bytes) on a Ready instance submits a message whose value is the
\* decoded string form of the bytes, for a Buffer and for a plain Uint8Array.
C4_BytesSubmittedDecoded ==
    \A c \in RelayCalls :
        calls[c].data.type \in {"Buffer", "Uint8Array"} =>
            \A i \in DOMAIN calls[c].sent :
                calls[c].sent[i].state = "connected" =>
                    calls[c].sent[i].request.messages
                        = <<[value |-> Utf8Decode(calls[c].data.content)]>>

\* C5: relay(t) of a text t on a Ready instance, no step before the publish
\* failing, submits to the connected producer exactly one publish request: topic
\* the configured PRODUCER_STREAM, messages the one message with value t.
C5_TextSubmittedUnchanged ==
    [][(RelayInvoked({"string"}) /\ Ready /\ Failures(Last(calls').trace) = {})
        => Last(calls').sent
             = <<[producer |-> producer[1], state |-> "connected",
                  request |-> [topic |-> Cfg.PRODUCER_STREAM,
                               messages |-> <<[value |-> Last(calls').data.content]>>]]>>]_vars

\* a text holding a double quote was published on a Ready instance and the
\* call returned
C5_Witness ==
    \E c \in RelayCalls :
        /\ calls[c].data = Text(<<34, 104>>)
        /\ calls[c].pc = "fulfilled"
        /\ Len(calls[c].sent) = 1
        /\ calls[c].sent[1].state = "connected"
        /\ CountKind(calls[c].trace, "send resolved") = 1

\* C6: a relay() call on an instance whose init() was never called returns
\* without throwing and has emitted an error-level log.
C6_AbsentHandleFailureLogged ==
    \A c \in RelayCalls :
        (Returned(c) /\ \A d \in InitCalls : d > c) =>
            /\ calls[c].pc = "fulfilled"
            /\ CountKind(calls[c].trace, "error") >= 1

\* C7: the producer handle is absent unless some init() call has completed its
\* connect successfully.
C7_HandleAbsentUntilConnected ==
    producer # None =>
        \E c \in InitCalls : Count(calls[c].trace, ConnectResolved) = 1

\* C8: the instance never has more than one connected producer.
C8_AtMostOneConnectedProducer ==
    Cardinality({p \in DOMAIN producers : producers[p] = "connected"}) <= 1

C10_DevTierDisablesTls ==
    (kafka # None /\ Cfg.nodeEnv = "dev") => kafka[1].ssl = JsFalse

\* the tier the constructor works with is set, by the configuration's NODE_ENV
\* or else by the process environment's, and is not 'dev'
TierSetNotDev ==
    \/ Cfg.NODE_ENV # None /\ Cfg.NODE_ENV # Some("dev")
    \/ Cfg.NODE_ENV = None /\ processEnv.NODE_ENV # None
                           /\ processEnv.NODE_ENV # Some("dev")

C12_ErrorLogIffStepFailed ==
    \A c \in RelayCalls :
        LET t == calls[c].trace IN
        Returned(c) =>
            /\ (Failures(t) = {}) <=> (CountKind(t, "error") = 0)
            /\ CountKind(t, "error") <= 1
            /\ \A i \in Positions(t, "send rejected") :
                   /\ Count(t, <<"error", "Kafka relay error: " \o t[i][2],
                                 "KafkaRelayPlugin">>) = 1
                   /\ CountKind(t, "error") = 1

\* a relay() call returned after its publish was rejected with Error('Send failed')
C12_Witness ==
    \E c \in RelayCalls :
        /\ Returned(c)
        /\ Count(calls[c].trace, SendRejected("Send failed")) = 1
        /\ Count(calls[c].trace,
                 <<"error", "Kafka relay error: Send failed", "KafkaRelayPlugin">>) = 1

\* construction was attempted: it built the client or threw
ConstructionAttempted == kafka # None \/ constructError # None

\* C13: with the tier set to development, the CA setting unset and the other
\* required settings present, resolution reports no missing setting and
\* construction succeeds.
C13_CaNotRequiredInDev ==
    ( /\ ConstructionAttempted
      /\ processEnv.NODE_ENV = Some("dev")
      /\ processEnv.KAFKA_TLS_CA = None
      /\ processEnv.DESTINATION_TRANSPORT_URL # None
      /\ processEnv.PRODUCER_STREAM # None )
        => constructError = None /\ kafka # None

\* C14: in every init() call the log 'Initializing Kafka producer for broker:
\* <address>' comes before the connect attempt, and 'Kafka producer connected'
\* is logged only after the connect has resolved, and then exactly once (not
\* at all while the connect is pending or when it was rejected).
C14_InitLogOrder ==
    \A c \in InitCalls :
        LET t == calls[c].trace
            announce == LogInfo("Initializing Kafka producer for broker: "
                                \o Interpolate(Cfg.DESTINATION_TRANSPORT_URL))
            confirm == LogInfo("Kafka producer connected")
        IN  /\ Count(t, announce) = 1
            /\ \A i, j \in DOMAIN t :
                   (t[i] = announce /\ t[j] = Connect) => i < j
            /\ Count(t, confirm) = Count(t, ConnectResolved)
            /\ Count(t, confirm) <= 1
            /\ \A i, j \in DOMAIN t :
                   (t[i] = ConnectResolved /\ t[j] = confirm) => i < j
            /\ (calls[c].pc = "fulfilled") <=> (Count(t, confirm) = 1)

\* an init() call returned after its connect resolved: it logged the address,
\* connected, and logged the confirmation
C14_Witness ==
    \E c \in InitCalls :
        /\ calls[c].pc = "fulfilled"
        /\ Count(calls[c].trace, Connect) = 1
        /\ Count(calls[c].trace, ConnectResolved) = 1
        /\ Last(calls[c].trace) = LogInfo("Kafka producer connected")

\* C15: a publish request is submitted only while the instance is Ready: every
\* request went to a producer that was connected when it was submitted.
C15_PublishOnlyWhenReady ==
    \A c \in RelayCalls :
        \A i \in DOMAIN calls[c].sent : calls[c].sent[i].state = "connected"

\* C16: each relay() call submits at most one publish request, the request
\* carries the call's own normalised payload on the configured stream, and
\* nothing is submitted after a rejection; so there are never more requests
\* than relay() calls.
RECURSIVE Requests(_)
Requests(cs) == IF cs = <<>> THEN 0 ELSE Len(cs[1].sent) + Requests(Tail(cs))

C16_OneOwnRequestPerCall ==
    /\ \A c \in RelayCalls :
        LET t == calls[c].trace IN
        /\ Len(calls[c].sent) <= 1
        /\ CountKind(t, "producer.send") = Len(calls[c].sent)
        /\ \A i \in DOMAIN calls[c].sent :
               calls[c].sent[i].request =
                   [topic |-> Cfg.PRODUCER_STREAM,
                    messages |-> <<[value |-> NormalizePayload(calls[c].data)]>>]
        /\ \A i \in Positions(t, "send rejected"), j \in Positions(t, "producer.send") :
               j < i
    /\ Requests(calls) <= Cardinality(RelayCalls)

\* two relay() calls with different payloads were in flight together on a
\* connected producer; the later one's publish was rejected and it returned,
\* each having submitted its own single request
C16_Witness ==
    \E c, d \in RelayCalls :
        /\ c < d
        /\ calls[c].data # calls[d].data
        /\ calls[c].pc = "awaitSend"
        /\ Len(calls[c].sent) = 1 /\ calls[c].sent[1].state = "connected"
        /\ Len(calls[d].sent) = 1 /\ calls[d].sent[1].state = "connected"
        /\ Returned(d)
        /\ CountKind(calls[d].trace, "send rejected") = 1

\* C17: a relay() call suspended on its publish blocks nobody: while it is
\* suspended (and the run has a call left), any relay() can start, and any
\* other suspended relay() can be resumed and return; and, every publish
\* settling, every relay() call returns, having ended the transaction it
\* started: again and again all the relay() calls made so far have returned (a
\* call that has returned stays returned).
C17_SuspendedRelayBlocksNobody ==
    /\ [](\A c \in RelayCalls :
            calls[c].pc = "awaitSend" =>
                /\ Len(calls) < MaxCalls =>
                       \A data \in LifecyclePayloads, o \in LifecycleOutcomes :
                           ENABLED RelayStart(data, o)
                /\ \A d \in RelayCalls \ {c} :
                       calls[d].pc = "awaitSend" => ENABLED SendResolves(d))
    /\ []<>(\A c \in RelayCalls :
                /\ Returned(c)
                /\ Count(calls[c].trace, TransactionEnd)
                     = Count(calls[c].trace, StartTransaction("handle")))

\* while a relay() call is still suspended on its publish, a relay() call made
\* after it has published and returned
C17_Witness ==
    \E c, d \in RelayCalls :
        /\ c < d
        /\ calls[c].pc = "awaitSend" /\ Len(calls[c].sent) = 1
        /\ calls[d].pc = "fulfilled" /\ Len(calls[d].sent) = 1
        /\ CountKind(calls[d].trace, "send resolved") = 1

\* a step of a relay() call: one is made, or one made earlier moves on
RelayStep ==
    \E c \in DOMAIN calls' :
        /\ calls'[c].op = "relay"
        /\ c \notin Calls \/ calls'[c] # calls[c]

\* C18: what construction derives stays as construction left it. The instance
\* has constructed exactly one broker client, with the options (address, client
\* identifier, TLS policy) derived from its configuration; no step of an init()
\* or relay() call, successful or failed, changes the configuration, the
\* broker client or the process environment the policy was derived from; and
\* a step of a relay() call leaves the producer handle, and the producers
\* created, as they were.
C18_ConstructionFixed ==
    [][/\ kafkaCount = 1 /\ kafkaCount' = 1
       /\ kafka = Some(NewKafka(Cfg, processEnv))
       /\ configuration' = configuration
       /\ kafka' = kafka
       /\ processEnv' = processEnv
       /\ RelayStep => producer' = producer /\ producers' = producers]_vars

\* a failed init(), a successful init() and a returned relay() on one instance,
\* whose broker client is still the one construction made
C18_Witness ==
    /\ \E c \in InitCalls : calls[c].pc = "rejected"
    /\ \E c \in InitCalls : calls[c].pc = "fulfilled"
    /\ \E c \in RelayCalls : Returned(c) /\ calls[c].sent # <<>>
    /\ kafkaCount = 1
    /\ kafka = Some(NewKafka(Cfg, processEnv))

\* C19: defaults applied at construction. When no source sets the tier
\* (neither the configuration's NODE_ENV nor process.env.NODE_ENV), the broker
\* client is built with ssl = false; when the configuration has no CLIENT_ID,
\* it is built with the client identifier 'relay-plugin'.
C19_DefaultsApplied ==
    kafka # None =>
        /\ (Cfg.NODE_ENV = None /\ processEnv.NODE_ENV = None) => kafka[1].ssl = JsFalse
        /\ Cfg.CLIENT_ID = None => kafka[1].clientId = "relay-plugin"

\* constructed with the tier and the client identifier both unset, and a CA set
C19_Witness ==
    /\ kafka # None
    /\ Cfg.NODE_ENV = None /\ processEnv.NODE_ENV = None
    /\ Cfg.CLIENT_ID = None
    /\ Cfg.KAFKA_TLS_CA = Some("FAKE_CA")
    /\ kafka[1].ssl = JsFalse
    /\ kafka[1].clientId = "relay-plugin"

====
